---- MODULE Spec2Model ----
(***************************************************************************)
(* Model of src/Code.py: the WorkerThread poll loop (connectivity check,   *)
(* folder scan, per-file ledger check / read / fetch / diff / append /     *)
(* ledger update, interval sleep) and the start/stop button handler        *)
(* ExcelToSheetsApp.start_upload, together with the environment the loop   *)
(* runs against (files being modified, the wall clock, the remote sheet).  *)
(***************************************************************************)
EXTENDS Integers, Sequences, FiniteSets, TLC

(* ---------------------------- bounds ----------------------------------- *)
MaxMods == 1         \* rewrites of folder files by the environment
MaxClock == 1        \* wall-clock seconds range over 1..MaxClock
MaxIter == 2         \* iterations of the poll loop, over all workers
MaxStarts == 2       \* workers created by start_upload

(* ------------------------- program constants --------------------------- *)
SecondsPerMinute == 60
DefaultMinutes == 5   \* value the interval spinbox is created with

(* ---------------------------- the folder ------------------------------- *)
\* A file name is <<stem, suffix>>; the suffix is what str.endswith looks at.
FileA == <<"a", ".xlsx">>
FileB == <<"b", ".xls">>
FileN == <<"n", ".txt">>
Listings == { <<FileA, FileN, FileB>> }
FolderFiles == {FileA, FileB, FileN}

\* line 90: filename.endswith(('.xlsx', '.xls'))
EndsWithSpreadsheet(fn) == fn[2] \in {".xlsx", ".xls"}

SheetFiles == {f \in FolderFiles : EndsWithSpreadsheet(f)}

(* ------------------------------ rows ----------------------------------- *)
\* time.strftime('%Y-%m-%d %H:%M:%S') of the clock value t
strftime(t) == <<"2025-01-01 00:00:01", "2025-01-01 00:00:02", "2025-01-01 00:00:03">>[t]

\* line 106: f"Uploaded on: {timestamp}"
HeaderCell(ts) == "Uploaded on: " \o ts

\* line 106: new_data = [[f"Uploaded on: {timestamp}"]] + rngData
NewData(ts, rngData) == << <<HeaderCell(ts)>> >> \o rngData

\* Grids a file of the folder may hold (what get_excel_data returns for it).
GridXY == << <<"x">>, <<"y", "2">> >>
GridStamp == << <<"Uploaded on: 2025-01-01 00:00:01">> >>
Grids == { <<>>, GridXY, GridStamp }

Range(s) == {s[i] : i \in 1..Len(s)}

\* line 110: filtered_data = [row for row in new_data if row not in existing_data]
\* variant: a row already kept is not kept again
RECURSIVE FilterRowsOnce(_, _)
FilterRowsOnce(new_data, existing_data) ==
    IF new_data = <<>> THEN <<>>
    ELSE LET row == new_data[Len(new_data)]
             front == SubSeq(new_data, 1, Len(new_data) - 1)
             rest == FilterRowsOnce(front, existing_data)
         IN IF row \notin Range(existing_data) /\ row \notin Range(rest)
            THEN rest \o <<row>> ELSE rest

RECURSIVE FilterRows(_, _)
FilterRows(new_data, existing_data) ==
    IF new_data = <<>> THEN <<>>
    ELSE LET row == Head(new_data)
             rest == FilterRows(Tail(new_data), existing_data)
         IN IF row \notin Range(existing_data) THEN <<row>> \o rest ELSE rest

\* The remote sheet is kept as the text of its cell A1 ("" while the sheet
\* is empty), the only cell the program ever reads back (line 47).
\* lines 45-49: values().get(range='DataGGsheet1!A1') returns the single cell
\* A1 as [[A1]], and result.get('values', []) is [] when that cell is empty.
FetchRange(a1) == IF a1 = "" THEN <<>> ELSE << <<a1>> >>

\* lines 113-118: values().append(range='DataGGsheet1!A1', body={'values': rows})
\* puts the rows below the last row of the sheet: the first cell of the first
\* row becomes A1 when the sheet was empty.
AppendRows(a1, rows) == IF a1 = "" THEN rows[1][1] ELSE a1

(* ------------------------------ ledger --------------------------------- *)
EmptyLedger == [x \in {} |-> 0]

\* variant: every worker starts from an empty ledger
load_uploaded_files_empty(file) == EmptyLedger

\* lines 64-69
load_uploaded_files(file) == IF file.exists THEN file.data ELSE EmptyLedger

\* variant: skips only when the ledger entry is newer than the file
SkipUnmodifiedNewer(led, fn, m) == fn \in DOMAIN led /\ led[fn] > m

\* line 95: filename in self.uploaded_files and self.uploaded_files[filename] == file_modified_time
SkipUnmodified(led, fn, m) == fn \in DOMAIN led /\ led[fn] = m

\* variant: the ledger takes the modification time read again at line 123
LedgerValueCurrent(sampled, current) == current

\* line 123: self.uploaded_files[filename] = file_modified_time
\* (sampled is the local of line 92, current is what getmtime would return now)
LedgerValue(sampled, current) == sampled

\* variant: a failed save puts the in-memory ledger back as it was
LedgerAfterFailedSaveRestored(old, new) == old

\* lines 123-124 and 129-130: the entry set at line 123 stays when the save of
\* line 124 raises
LedgerAfterFailedSave(old, new) == new

SetEntry(led, fn, m) == [x \in (DOMAIN led) \cup {fn} |-> IF x = fn THEN m ELSE led[x]]

(* --------------------------- control flow ------------------------------ *)
\* variant: while True
WhileCondTrue(r) == TRUE

\* line 78: while self.running
WhileCond(r) == r

\* line 83: not (self.folder_path and self.gsheet_id and self.service)
NotInitialized(c) == ~(c.folder_path # "" /\ c.gsheet_id # "" /\ c.service)

\* variant: the else branch ends with continue
AfterDisconnectedContinue == "while"

\* lines 137-141: the else branch falls through to the wait message and sleep
AfterDisconnected == "wait_msg"

\* variant: the handlers re-raise and run returns
AfterOuterExceptRaise == "stopped"

\* lines 132-135: both handlers fall through to the wait message and sleep
AfterOuterExcept == "wait_msg"

\* variant: the handlers leave the for loop
AfterFileFailureBreak == "wait_msg"

\* lines 129-130, 60-62, 50-52: the handlers inside the for body return to the loop
AfterFileFailure == "for"

\* line 127: the duplicate-only report is emitted on upload_successful
DupSkipSignal == "upload_successful"

\* variant: the append is made whatever the batch holds
ShouldAppendAlways(filtered) == TRUE

\* line 112: if filtered_data
ShouldAppend(filtered) == filtered # <<>>

\* variant: a non-empty batch is recorded in the ledger without the append call
AfterNonEmptyBatchLedger == "ledger"

\* lines 112-113: a non-empty batch goes on to the append call
AfterNonEmptyBatch == "append"

\* variant: a batch that filtered to empty is recorded in the ledger
AfterEmptyBatchLedger == "ledger"

\* lines 126-127: after the duplicate-only report the loop takes the next file
AfterEmptyBatch == "for"

\* lines 50-52: a failed fetch is reported and [] is returned to run
FetchFailedResult == <<>>

\* variant: the batch is built whatever get_excel_data returned
HasRowsAlways(rngData) == TRUE

\* line 103: if rngData
HasRows(rngData) == rngData # <<>>

VARIABLES
    \* environment
    mtime,              \* os.path.getmtime of each spreadsheet file
    content,            \* grid of each spreadsheet file
    sheet,              \* cell A1 of the remote sheet
    mods,               \* rewrites so far
    pklfile,            \* uploaded_files.pkl: [exists, data]
    \* ExcelToSheetsApp
    gui,                \* "idle" | "waiting" (inside worker.wait())
    hasWorker,          \* hasattr(self, "worker")
    starts,             \* workers created so far
    passes,             \* iterations of the poll loop begun so far, over all workers
    orphans,            \* threads still inside run whose self.worker reference was replaced
    \* WorkerThread
    pc,                 \* position of run
    running,            \* self.running
    cfg,                \* folder_path, gsheet_id, service, interval_seconds
    uploaded_files,     \* self.uploaded_files
    listing, idx,       \* os.listdir result and position of the for loop
    filename,
    file_modified_time,
    new_data,
    existing_data,
    filtered_data,
    \* history of the current iteration
    iter,               \* iterations begun by this worker
    sampled,            \* what getmtime returned for each file in this iteration (0: not asked)
    ev,                 \* <<file, operation>> performed in this iteration
    notes,              \* <<signal, kind, file>> emitted in this iteration
    ledger0,            \* self.uploaded_files when the iteration began
    slept,              \* seconds slept in this iteration
    unsaved,            \* the latest save_uploaded_files call of this worker raised
    last,               \* per file, the latest earlier iteration that sampled it:
                        \* [sampled, ops, mine] (mine: it was this worker's)
    hist,               \* which history is kept: "stop" (the position in stopAt),
                        \* "sampled", "mine" and the CarriedOps (the fields of last)
    stopAt              \* [iter, idx, appending]: where run was when running was set to
                        \* False, and the file whose append call was in progress then

envVars == <<mtime, content, mods, sheet, pklfile>>
guiVars == <<gui, hasWorker, starts, passes, orphans>>
fileVars == <<listing, idx, filename, file_modified_time, new_data, existing_data, filtered_data>>
histVars == <<iter, sampled, ev, notes, ledger0, slept, stopAt>>
ghostVars == <<unsaved, last, hist>>
vars == <<mtime, content, mods, sheet, pklfile, gui, hasWorker, starts, passes, orphans,
          pc, running, cfg, uploaded_files,
          listing, idx, filename, file_modified_time, new_data, existing_data, filtered_data,
          iter, sampled, ev, notes, ledger0, slept, stopAt, unsaved, last, hist>>

NoFile == <<"", "">>
NotSampled == [f \in SheetFiles |-> 0]
NoStop == [iter |-> 0, idx |-> 0, appending |-> NoFile]
NoCfg == [folder_path |-> "", gsheet_id |-> "", service |-> FALSE, interval_seconds |-> 0]

\* what is remembered of an iteration for the files it sampled
CarriedOps == {"read_failed", "filtered_empty", "save_failed"}
NoLast == [f \in SheetFiles |-> [sampled |-> 0, ops |-> {}, mine |-> FALSE]]

\* An iteration ends (a new one begins at line 78, or a new worker replaces
\* the one that returned): for each file it sampled, remember the sampled
\* value, which of CarriedOps happened to it, and whether it was an iteration
\* of the worker that goes on.
Carry(newWorker) ==
    last' = [f \in SheetFiles |->
                IF sampled[f] # 0
                THEN [sampled |-> IF "sampled" \in hist THEN sampled[f] ELSE 0,
                      ops |-> {op \in CarriedOps \cap hist : <<f, op>> \in ev},
                      mine |-> ("mine" \in hist /\ ~newWorker)]
                ELSE [last[f] EXCEPT !.mine = (@ /\ ~newWorker)]]

\* the locals of the for body before their first assignment
NoLocals ==
    /\ listing' = <<>> /\ idx' = 0 /\ filename' = NoFile
    /\ file_modified_time' = 0 /\ new_data' = <<>>
    /\ existing_data' = <<>> /\ filtered_data' = <<>>

Emit(signal, kind, fn) == notes' = notes \cup {<<signal, kind, fn>>}
Did(fn, op) == ev' = ev \cup {<<fn, op>>}

\* The application after ExcelToSheetsApp.__init__: no worker yet.
NoWorker ==
    /\ mtime = [f \in SheetFiles |-> 1]
    /\ content = [f \in SheetFiles |-> IF f = FileA THEN GridXY ELSE GridStamp]
    /\ mods = 0
    /\ pklfile = [exists |-> FALSE, data |-> EmptyLedger]
    /\ gui = "idle" /\ hasWorker = FALSE /\ starts = 0 /\ passes = 0 /\ orphans = 0
    /\ running = FALSE /\ cfg = NoCfg
    /\ uploaded_files = EmptyLedger
    /\ listing = <<>> /\ idx = 0 /\ filename = NoFile
    /\ file_modified_time = 0
    /\ iter = 0 /\ sampled = NotSampled /\ ev = {} /\ notes = {}
    /\ ledger0 = EmptyLedger /\ slept = 0 /\ stopAt = NoStop
    /\ unsaved = FALSE /\ last = NoLast

\* The application after ExcelToSheetsApp.__init__, keeping the history h.
Start(h) ==
    /\ NoWorker
    /\ hist = h
    /\ sheet = ""
    /\ pc = "none"
    /\ new_data = <<>> /\ existing_data = <<>> /\ filtered_data = <<>>

Init == Start({"stop"})

(* ---------------------------- environment ------------------------------ *)
\* A file of the folder is saved again: its modification time moves on.
ModifyFile ==
    \E f \in SheetFiles :
        /\ mods < MaxMods
        /\ mods' = mods + 1
        /\ mtime' = [mtime EXCEPT ![f] = @ + 1]
        /\ UNCHANGED <<content, sheet, pklfile, guiVars, pc, running, cfg, uploaded_files,
                       fileVars, histVars, ghostVars>>

\* positions of run inside the body of the for loop (lines 90-130)
FilePcs == {"getmtime", "read", "fetch", "append", "ledger"}

(* ------------------------- ExcelToSheetsApp ---------------------------- *)
\* variant: the handler never finds a running worker
WorkerIsRunningNever == FALSE

\* line 300: hasattr(self, "worker") and self.worker.isRunning()
WorkerIsRunning == hasWorker /\ pc \notin {"none", "stopped"}

\* lines 300-304: the button is pressed while a worker runs: the flag is
\* cleared and the GUI thread blocks in worker.wait().
StopRequest ==
    /\ gui = "idle"
    /\ WorkerIsRunning
    /\ running' = FALSE
    /\ gui' = "waiting"
    /\ stopAt' = IF "stop" \in hist
                  THEN [iter |-> iter, idx |-> IF pc \in FilePcs THEN idx ELSE 0,
                        appending |-> IF pc = "append" THEN filename ELSE NoFile]
                  ELSE [NoStop EXCEPT !.iter = iter]
    /\ UNCHANGED <<envVars, hasWorker, starts, passes, orphans, pc, cfg, uploaded_files,
                   fileVars, iter, sampled, ev, notes, ledger0, slept, ghostVars>>

\* lines 304-307: worker.wait() returns once run has returned; del self.worker
WaitReturns ==
    /\ gui = "waiting"
    /\ pc = "stopped"
    /\ gui' = "idle"
    /\ hasWorker' = FALSE
    /\ UNCHANGED <<envVars, starts, passes, orphans, pc, running, cfg, uploaded_files,
                   fileVars, histVars, ghostVars>>

\* lines 309-339: the button is pressed with no running worker.  The early
\* returns of lines 313-325 leave everything as it was; otherwise a
\* WorkerThread is constructed (lines 25-32) and started.
StartWorker ==
    /\ gui = "idle"
    /\ ~WorkerIsRunning
    /\ starts < MaxStarts
    /\ \E gsheet_id \in {"", "sheet"}, client_secret_file \in {"", "secret.json"},
          service \in BOOLEAN, folder_path \in {"", "folder"}, minutes \in {DefaultMinutes} :
        IF gsheet_id = "" \/ client_secret_file = "" \/ ~service \/ folder_path = ""
        THEN UNCHANGED vars
        ELSE /\ cfg' = [folder_path |-> folder_path, gsheet_id |-> gsheet_id,
                        service |-> service,
                        interval_seconds |-> minutes * SecondsPerMinute]
             /\ running' = TRUE
             /\ uploaded_files' = load_uploaded_files(pklfile)
             /\ hasWorker' = TRUE
             /\ starts' = starts + 1
             /\ pc' = "start"
             /\ iter' = 0 /\ sampled' = NotSampled /\ ev' = {} /\ notes' = {}
             /\ ledger0' = load_uploaded_files(pklfile) /\ slept' = 0
             /\ stopAt' = NoStop
             /\ NoLocals
             /\ orphans' = orphans + (IF pc \in {"none", "stopped"} THEN 0 ELSE 1)
             /\ unsaved' = FALSE
             /\ Carry(TRUE)
             /\ UNCHANGED <<envVars, gui, passes, hist>>

(* --------------------------- WorkerThread.run -------------------------- *)
\* line 77
RunStart ==
    /\ pc = "start"
    /\ Emit("upload_failed", "started", NoFile)
    /\ pc' = "while"
    /\ UNCHANGED <<envVars, guiVars, running, cfg, uploaded_files, fileVars,
                   iter, sampled, ev, ledger0, slept, stopAt, ghostVars>>

\* line 78 (and line 143 when the condition is false).  The locals of the
\* previous iteration are dead here: each is assigned again before it is read.
WhileCheck ==
    /\ pc = "while"
    /\ IF WhileCond(running)
       THEN /\ passes < MaxIter
            /\ passes' = passes + 1
            /\ pc' = "connect"
            /\ iter' = iter + 1
            /\ sampled' = NotSampled /\ ev' = {} /\ notes' = {}
            /\ ledger0' = uploaded_files /\ slept' = 0
            /\ Carry(FALSE)
       ELSE /\ pc' = "stopped"
            /\ Emit("upload_failed", "stopped", NoFile)
            /\ UNCHANGED <<passes, iter, sampled, ev, ledger0, slept, last>>
    /\ NoLocals
    /\ UNCHANGED <<envVars, gui, hasWorker, starts, orphans, running, cfg, uploaded_files,
                   stopAt, unsaved, hist>>

\* lines 79-86 and 137-138: is_connected (lines 34-40) succeeds or raises OSError
IsConnected ==
    /\ pc = "connect"
    /\ \E ok \in BOOLEAN :
        IF ok
        THEN IF NotInitialized(cfg)
             THEN /\ notes' = notes \cup {<<"internet_connected", "connected", NoFile>>,
                                          <<"upload_failed", "scanning", NoFile>>,
                                          <<"upload_failed", "error_not_initialized", NoFile>>}
                  /\ pc' = "sleep"
             ELSE /\ notes' = notes \cup {<<"internet_connected", "connected", NoFile>>,
                                          <<"upload_failed", "scanning", NoFile>>}
                  /\ pc' = "listdir"
        ELSE /\ Emit("internet_disconnected", "disconnected", NoFile)
             /\ pc' = AfterDisconnected
    /\ UNCHANGED <<envVars, guiVars, running, cfg, uploaded_files, fileVars,
                   iter, sampled, ev, ledger0, slept, stopAt, ghostVars>>

\* line 89: os.listdir returns the names, or raises FileNotFoundError (line
\* 132) or another OSError (line 134)
ListDir ==
    /\ pc = "listdir"
    /\ \E outcome \in {"ok", "FileNotFoundError", "Exception"} :
        IF outcome = "ok"
        THEN /\ \E l \in Listings : listing' = l
             /\ idx' = 0
             /\ pc' = "for"
             /\ Did(NoFile, "listdir")
             /\ UNCHANGED notes
        ELSE /\ Emit("upload_failed",
                     IF outcome = "FileNotFoundError" THEN "error_folder_not_found"
                     ELSE "error_unexpected", NoFile)
             /\ pc' = AfterOuterExcept
             /\ UNCHANGED <<listing, idx, ev>>
    /\ UNCHANGED <<envVars, guiVars, running, cfg, uploaded_files, filename,
                   file_modified_time, new_data, existing_data, filtered_data,
                   iter, sampled, ledger0, slept, stopAt, ghostVars>>

\* lines 89-90: the for loop takes the next name, or is exhausted.  The
\* locals of the previous file are dead here: each is assigned again before
\* it is read.
ForNext ==
    /\ pc = "for"
    /\ IF idx = Len(listing)
       THEN /\ pc' = "wait_msg"
            /\ UNCHANGED <<idx, filename>>
       ELSE /\ idx' = idx + 1
            /\ filename' = listing[idx + 1]
            /\ pc' = IF EndsWithSpreadsheet(listing[idx + 1]) THEN "getmtime" ELSE "for"
    /\ file_modified_time' = 0 /\ new_data' = <<>>
    /\ existing_data' = <<>> /\ filtered_data' = <<>>
    /\ UNCHANGED <<envVars, guiVars, running, cfg, uploaded_files, listing, histVars, ghostVars>>

\* lines 91-99: os.path.getmtime (which raises when the file is gone, handled
\* at line 134) and the ledger check
GetMtime ==
    /\ pc = "getmtime"
    /\ \E ok \in BOOLEAN :
        IF ok
        THEN /\ file_modified_time' = mtime[filename]
             /\ sampled' = [sampled EXCEPT ![filename] = mtime[filename]]
             /\ IF SkipUnmodified(uploaded_files, filename, mtime[filename])
                THEN /\ Emit("upload_failed", "skip_unmodified", filename)
                     /\ pc' = "for"
                ELSE /\ Emit("upload_failed", "checking", filename)
                     /\ pc' = "read"
             /\ UNCHANGED ev
        ELSE /\ Emit("upload_failed", "error_unexpected", filename)
             /\ Did(filename, "getmtime_failed")
             /\ pc' = AfterOuterExcept
             /\ UNCHANGED <<file_modified_time, sampled>>
    /\ UNCHANGED <<envVars, guiVars, running, cfg, uploaded_files, listing, idx, filename,
                   new_data, existing_data, filtered_data,
                   iter, ledger0, slept, stopAt, ghostVars>>

\* lines 102-106: get_excel_data (lines 54-62) returns the grid, or reports
\* and returns []; an empty result skips the file.  time.strftime reads the
\* wall clock, which shows one of the seconds 1..MaxClock.
ReadExcel ==
    /\ pc = "read"
    /\ \E ok \in BOOLEAN, now \in 1..MaxClock :
        LET rngData == IF ok THEN content[filename] ELSE <<>> IN
        /\ IF ok THEN UNCHANGED notes
                 ELSE Emit("upload_failed", "error_reading", filename)
        /\ Did(filename, IF ok THEN "read" ELSE "read_failed")
        /\ IF HasRows(rngData)
           THEN /\ new_data' = NewData(strftime(now), rngData)
                /\ pc' = "fetch"
           ELSE /\ pc' = AfterFileFailure
                /\ UNCHANGED new_data
    /\ UNCHANGED <<envVars, guiVars, running, cfg, uploaded_files, listing, idx, filename,
                   file_modified_time, existing_data, filtered_data,
                   iter, sampled, ledger0, slept, stopAt, ghostVars>>

\* lines 109-112 and 126-127: get_existing_google_sheets_data (lines 42-52),
\* the diff, and the branch on the filtered batch
FetchAndDiff ==
    /\ pc = "fetch"
    /\ \E ok \in BOOLEAN :
        LET existing == IF ok THEN FetchRange(sheet) ELSE FetchFailedResult
            filtered == FilterRows(new_data, existing)
            done == {<<filename, IF ok THEN "fetch" ELSE "fetch_failed">>} \cup
                    (IF filtered = <<>> THEN {<<filename, "filtered_empty">>} ELSE {})
            reported == IF ok THEN {} ELSE {<<"upload_failed", "error_fetching", filename>>}
        IN
        /\ existing_data' = existing
        /\ filtered_data' = filtered
        /\ ev' = ev \cup done
        /\ IF ShouldAppend(filtered)
           THEN /\ pc' = AfterNonEmptyBatch
                /\ notes' = notes \cup reported
           ELSE /\ pc' = AfterEmptyBatch
                /\ notes' = notes \cup reported \cup {<<DupSkipSignal, "duplicate_skip", filename>>}
    /\ UNCHANGED <<envVars, guiVars, running, cfg, uploaded_files, listing, idx, filename,
                   file_modified_time, new_data,
                   iter, sampled, ledger0, slept, stopAt, ghostVars>>

\* lines 113-120 and 129-130: the append call succeeds or raises
AppendCall ==
    /\ pc = "append"
    /\ \E ok \in BOOLEAN :
        IF ok
        THEN /\ sheet' = AppendRows(sheet, filtered_data)
             /\ Emit("upload_successful", "uploaded", filename)
             /\ Did(filename, "append")
             /\ pc' = "ledger"
        ELSE /\ Emit("upload_failed", "error_sending", filename)
             /\ Did(filename, "append_failed")
             /\ pc' = AfterFileFailure
             /\ UNCHANGED sheet
    /\ UNCHANGED <<mtime, content, mods, pklfile, guiVars, running, cfg, uploaded_files,
                   fileVars, iter, sampled, ledger0, slept, stopAt, ghostVars>>

\* lines 123-124 and 129-130: the ledger entry is set and the ledger saved
\* (lines 71-74); a failing open() leaves the file as it was and is reported
\* by the handler of line 129
LedgerUpdate ==
    /\ pc = "ledger"
    /\ LET v == LedgerValue(file_modified_time, mtime[filename])
           led == SetEntry(uploaded_files, filename, v) IN
        /\ \E ok \in BOOLEAN :
            /\ uploaded_files' = IF ok THEN led
                                  ELSE LedgerAfterFailedSave(uploaded_files, led)
            /\ unsaved' = ~ok
            /\ IF ok
               THEN /\ pklfile' = [exists |-> TRUE, data |-> led]
                    /\ ev' = ev \cup {<<filename, "ledger">>, <<filename, "saved">>}
                    /\ pc' = "for"
                    /\ UNCHANGED notes
               ELSE /\ Emit("upload_failed", "error_sending", filename)
                    /\ ev' = ev \cup {<<filename, "ledger">>, <<filename, "save_failed">>}
                    /\ pc' = AfterFileFailure
                    /\ UNCHANGED pklfile
    /\ UNCHANGED <<mtime, content, mods, sheet, guiVars, running, cfg, fileVars,
                   iter, sampled, ledger0, slept, stopAt, last, hist>>

\* line 140
WaitMsg ==
    /\ pc = "wait_msg"
    /\ Emit("upload_failed", "waiting", NoFile)
    /\ pc' = "sleep"
    /\ UNCHANGED <<envVars, guiVars, running, cfg, uploaded_files, fileVars,
                   iter, sampled, ev, ledger0, slept, stopAt, ghostVars>>

\* lines 141 and 85: time.sleep(self.interval_seconds) returns when the
\* interval has elapsed
Sleep ==
    /\ pc = "sleep"
    /\ slept' = slept + cfg.interval_seconds
    /\ pc' = "while"
    /\ UNCHANGED <<envVars, guiVars, running, cfg, uploaded_files, fileVars,
                   iter, sampled, ev, notes, ledger0, stopAt, ghostVars>>

Next ==
    \/ ModifyFile
    \/ StartWorker \/ StopRequest \/ WaitReturns
    \/ RunStart \/ WhileCheck \/ IsConnected \/ ListDir \/ ForNext \/ GetMtime
    \/ ReadExcel \/ FetchAndDiff \/ AppendCall \/ LedgerUpdate \/ WaitMsg \/ Sleep

Spec == Init /\ [][Next]_vars

\* lines 76-143: the steps of run.  The thread is scheduled and every call
\* it makes returns, so run keeps taking its next step.
Worker ==
    \/ RunStart \/ WhileCheck \/ IsConnected \/ ListDir \/ ForNext \/ GetMtime
    \/ ReadExcel \/ FetchAndDiff \/ AppendCall \/ LedgerUpdate \/ WaitMsg \/ Sleep

FairSpec == Init /\ [][Next]_vars /\ WF_vars(Worker)

\* The same program, keeping in last, for the latest earlier iteration that
\* sampled each file, whether its read failed,
InitReadFailed == Start({"read_failed"})
ReadFailedSpec == InitReadFailed /\ [][Next]_vars

\* whether its batch filtered to empty,
InitDuplicateSkip == Start({"filtered_empty"})
DuplicateSkipSpec == InitDuplicateSkip /\ [][Next]_vars

\* the modification time sampled,
InitModified == Start({"sampled"})
ModifiedSpec == InitModified /\ [][Next]_vars

\* whether the save of its ledger entry failed and whether the worker is
\* still the same.
InitSaveFailed == Start({"save_failed", "mine"})
SaveFailedSpec == InitSaveFailed /\ [][Next]_vars

(* ------------------- the diff of line 110 on its own ------------------- *)
MaxRows == 2         \* rows of a grid and of the fetched data

DiffRows == { <<"x">>, <<"y", "2">>, <<HeaderCell(strftime(1))>> }
RowSeqs(n) == UNION { [1..k -> DiffRows] : k \in 0..n }

\* lines 105-109: a batch and fetched rows of any shape reach line 110
InitDiff ==
    /\ NoWorker
    /\ hist = {}
    /\ sheet = ""
    /\ pc = "diff"
    /\ \E t \in 1..MaxClock : \E g \in RowSeqs(MaxRows) \ {<<>>} :
          new_data = NewData(strftime(t), g)
    /\ existing_data \in RowSeqs(MaxRows)
    /\ filtered_data = <<>>

\* line 110
DiffStep ==
    /\ pc = "diff"
    /\ filtered_data' = FilterRows(new_data, existing_data)
    /\ pc' = "diffed"
    /\ UNCHANGED <<envVars, guiVars, running, cfg, uploaded_files, listing, idx, filename,
                   file_modified_time, new_data, existing_data, histVars, ghostVars>>

DiffNext == DiffStep

DiffSpec == InitDiff /\ [][DiffNext]_vars

(* ------------------------------ properties ----------------------------- *)
Entry(led, f) == IF f \in DOMAIN led THEN led[f] ELSE 0
ErrorKinds == {"error_reading", "error_fetching", "error_sending", "error_unexpected",
               "error_folder_not_found", "error_not_initialized"}
RemoteOps == {"fetch", "fetch_failed", "append", "append_failed"}
Listed == <<NoFile, "listdir">> \in ev
Disconnected == <<"internet_disconnected", "disconnected", NoFile>> \in notes

\* C1: within a pass the ledger entry of a file differs from its value at the
\* start of the pass only if the append for that file succeeded in the pass,
\* and a file whose append, read or fetch failed, or whose batch filtered to
\* empty, has the entry it had before the attempt.
C1_LedgerUnchangedAfterAnyFailure ==
    \A f \in SheetFiles :
        /\ Entry(uploaded_files, f) # Entry(ledger0, f) => <<f, "append">> \in ev
        /\ (\E op \in {"append_failed", "read_failed", "fetch_failed", "filtered_empty"} :
                <<f, op>> \in ev)
           => Entry(uploaded_files, f) = Entry(ledger0, f)

\* C2: a file whose sampled modification time equals its ledger entry gets no
\* fetch and no append in that pass.
C2_UnmodifiedFileMakesNoRemoteCall ==
    \A f \in SheetFiles :
        (sampled[f] # 0 /\ f \in DOMAIN ledger0 /\ ledger0[f] = sampled[f])
        => \A op \in RemoteOps : <<f, op>> \notin ev

C2_Witness ==
    /\ pc = "for"
    /\ \E f \in SheetFiles :
        /\ f \in DOMAIN ledger0 /\ ledger0[f] = sampled[f]
        /\ ledger0[f] = mtime[f]

\* C3 (as stated): the step that writes the ledger after a successful append
\* leaves the ledger entry equal to the file's modification time at that moment.
C3_LedgerHoldsCurrentMtime ==
    [][(pc = "ledger" /\ pc' # "ledger") => uploaded_files'[filename] = mtime'[filename]]_vars

\* C3 (amended): after a successful append for f in a pass the ledger maps f
\* to the modification time sampled for f at line 92 of that pass.
C3_LedgerHoldsSampledMtime ==
    \A f \in SheetFiles :
        <<f, "ledger">> \in ev => (f \in DOMAIN uploaded_files /\ uploaded_files[f] = sampled[f])

C3_Witness ==
    \E f \in SheetFiles :
        /\ <<f, "ledger">> \in ev
        /\ uploaded_files[f] = sampled[f]
        /\ mtime[f] # sampled[f]

\* C4: the filtered batch is new_data restricted to the positions whose row
\* equals no row of existing_data, in the order of new_data.
Kept(new, ex) == {i \in 1..Len(new) : \A j \in 1..Len(ex) : new[i] # ex[j]}

C4_FilteredIsOrderedDifference ==
    pc = "diffed" =>
        LET K == Kept(new_data, existing_data) IN
        /\ Len(filtered_data) = Cardinality(K)
        /\ \A i \in K : filtered_data[Cardinality({j \in K : j <= i})] = new_data[i]

C4_Witness ==
    /\ pc = "diffed"
    /\ Len(filtered_data) < Len(new_data)
    /\ \E i, j \in 1..Len(filtered_data) : i < j /\ filtered_data[i] = filtered_data[j]

\* C5: a file whose filtered batch is empty gets no append in that pass, is
\* reported on upload_successful as a duplicate skip, and no error is
\* reported for it.
C5_EmptyBatchIsSkippedNotAppended ==
    \A f \in SheetFiles :
        <<f, "filtered_empty">> \in ev =>
            /\ <<f, "append">> \notin ev /\ <<f, "append_failed">> \notin ev
            /\ ~(filename = f /\ pc \in {"append", "ledger"})
            /\ <<"upload_successful", "duplicate_skip", f>> \in notes
            /\ \A k \in ErrorKinds : <<"upload_failed", k, f>> \notin notes

C5_Witness ==
    \E f \in SheetFiles :
        /\ <<f, "filtered_empty">> \in ev
        /\ <<"upload_successful", "duplicate_skip", f>> \in notes
        /\ pc = "for"

\* C6: a file whose fetch failed in a pass gets no append call in that pass.
C6_NoAppendAfterFailedFetch ==
    \A f \in SheetFiles :
        <<f, "fetch_failed">> \in ev =>
            /\ <<f, "append">> \notin ev /\ <<f, "append_failed">> \notin ev
            /\ <<"upload_failed", "error_fetching", f>> \in notes

C8_EveryFailureIsIsolated ==
    (pc \in {"wait_msg", "sleep"} /\ Listed)
    => \A f \in SheetFiles \cap Range(listing) :
          sampled[f] # 0 \/ <<f, "getmtime_failed">> \in ev

\* C8 (amended): in a scan in which no getmtime call fails, every spreadsheet
\* file of the listing is checked against the ledger and, unless its entry
\* equals its modification time, read, whatever failed for the files before it.
C8_FailuresInsideTheFileBodyAreIsolated ==
    (pc \in {"wait_msg", "sleep"} /\ Listed /\ \A f \in SheetFiles : <<f, "getmtime_failed">> \notin ev)
    => \A f \in SheetFiles \cap Range(listing) :
          /\ sampled[f] # 0
          /\ ~(f \in DOMAIN ledger0 /\ ledger0[f] = sampled[f])
             => (<<f, "read">> \in ev \/ <<f, "read_failed">> \in ev)

C8_Witness ==
    /\ pc = "wait_msg" /\ Listed
    /\ \E op \in {"read_failed", "fetch_failed", "append_failed", "save_failed"} :
          <<listing[1], op>> \in ev
    /\ <<listing[Len(listing)], "read">> \in ev

\* C9: an iteration whose connectivity check failed lists no folder, makes no
\* remote call, leaves the ledger as it was and returns to line 78 only
\* after sleeping interval_seconds.
C9_DisconnectedIterationOnlySleeps ==
    Disconnected =>
        /\ ev = {} /\ sampled = NotSampled
        /\ uploaded_files = ledger0
        /\ pc \in {"wait_msg", "sleep", "while", "stopped"}
        /\ pc \in {"while", "stopped"} => slept = cfg.interval_seconds

C9_Witness ==
    Disconnected /\ pc = "while" /\ slept = cfg.interval_seconds

\* an error or a failed connectivity check was reported in this iteration
Failed ==
    \/ Disconnected
    \/ \E k \in ErrorKinds, f \in SheetFiles \cup {NoFile} : <<"upload_failed", k, f>> \in notes

\* C10: run returns only from line 78 with running False; from every
\* position of an iteration in which a failure was reported the worker has a
\* next step, its sleep lasts interval_seconds and ends at line 78, and from
\* there, while running is True, it goes on to the next connectivity check.
C10_NoErrorEndsTheLoop ==
    /\ [](pc = "stopped" => ~running)
    /\ []((Failed /\ pc \notin {"while", "stopped"}) => ENABLED Worker)
    /\ [][/\ (pc' = "stopped" /\ pc # "stopped") => (pc = "while" /\ ~running)
          /\ (Failed /\ pc = "sleep" /\ pc' # "sleep")
                => (pc' = "while" /\ slept' = cfg.interval_seconds)
          /\ (Failed /\ pc = "while" /\ running /\ pc' # "while")
                => (pc' = "connect" /\ iter' = iter + 1)]_vars

C10_Witness ==
    /\ pc = "while" /\ running /\ slept = cfg.interval_seconds
    /\ \E f, g \in SheetFiles :
          {<<"upload_failed", "error_reading", f>>, <<"upload_failed", "error_sending", g>>}
              \subseteq notes

\* C11: under weak fairness of the worker's steps, once running is False the
\* worker reaches line 143 and run returns; an append call that was in
\* progress when the flag was cleared returns or raises, and is recorded,
\* before run returns.
C11_StopIsEventuallyObserved ==
    /\ (~running /\ pc \notin {"none", "stopped"}) ~> (pc = "stopped")
    /\ [][(~running /\ pc = "append" /\ pc' # "append")
            => /\ pc' # "stopped"
               /\ \E op \in {"append", "append_failed"} : <<filename, op>> \in ev']_vars
    /\ []((pc = "stopped" /\ stopAt.appending # NoFile)
            => \E op \in {"append", "append_failed"} : <<stopAt.appending, op>> \in ev)

C11_Witness ==
    /\ pc = "stopped" /\ ~running /\ stopAt.appending # NoFile
    /\ <<stopAt.appending, "append">> \in ev

\* the worker has asked for f's modification time in this iteration and has
\* gone on to read f (or is about to)
Attempted(f) ==
    \/ <<f, "read">> \in ev \/ <<f, "read_failed">> \in ev
    \/ (pc = "read" /\ filename = f)

Connected == <<"internet_connected", "connected", NoFile>> \in notes

\* a failed read of f in this iteration is reported, is followed by no fetch
\* and no append for f, and leaves f's ledger entry as it was
ReadFailureSkipsTheFile ==
    \A f \in SheetFiles :
        <<f, "read_failed">> \in ev =>
            /\ <<"upload_failed", "error_reading", f>> \in notes
            /\ \A op \in RemoteOps : <<f, op>> \notin ev
            /\ ~(filename = f /\ pc \in {"fetch", "append", "ledger"})
            /\ Entry(uploaded_files, f) = Entry(ledger0, f)

\* C12 (as stated): a failed read of f skips f for the pass, and at the end
\* of the next pass that found connectivity f has been attempted again.
C12_ReadFailureRetriedNextConnectedPass ==
    /\ ReadFailureSkipsTheFile
    /\ \A f \in SheetFiles :
          ("read_failed" \in last[f].ops /\ Connected /\ pc \in {"wait_msg", "sleep"})
          => Attempted(f)

\* C12 (amended): a failed read of f skips f for the pass, and in the next
\* pass in which the worker gets f's modification time f is not skipped as
\* unmodified: its read is attempted again.
C12_ReadFailureRetriedWhenReached ==
    /\ ReadFailureSkipsTheFile
    /\ \A f \in SheetFiles :
          ("read_failed" \in last[f].ops /\ sampled[f] # 0)
          => /\ <<"upload_failed", "skip_unmodified", f>> \notin notes
             /\ Attempted(f)

C12_Witness ==
    \E f \in SheetFiles :
        /\ "read_failed" \in last[f].ops
        /\ <<f, "read">> \in ev
        /\ Entry(uploaded_files, f) = Entry(ledger0, f)

\* positions of run between two files of a scan, and around the sleep
BetweenFiles == {"for", "wait_msg", "sleep"}

\* C13 (as stated): between files and while sleeping the ledger file holds
\* the in-memory ledger, and a worker started after a stop begins with the
\* mapping the previous worker held.
C13_PersistedEqualsInMemory ==
    /\ [](pc \in BetweenFiles => load_uploaded_files(pklfile) = uploaded_files)
    /\ [][(pc = "stopped" /\ pc' = "start") => uploaded_files' = uploaded_files]_vars

\* C13 (amended): between files and while sleeping the ledger file holds the
\* in-memory ledger unless the worker's latest save raised; a worker started
\* after a stop begins with the mapping of the ledger file, which is the
\* previous worker's mapping unless its latest save raised, and skips every
\* file whose modification time equals the entry it loaded.
C13_PersistedEqualsInMemoryUnlessSaveFailed ==
    /\ []((pc \in BetweenFiles /\ ~unsaved) => load_uploaded_files(pklfile) = uploaded_files)
    /\ [][(pc = "stopped" /\ pc' = "start")
            => /\ uploaded_files' = load_uploaded_files(pklfile)
               /\ ~unsaved => uploaded_files' = uploaded_files]_vars
    /\ [](\A f \in SheetFiles :
            (starts > 1 /\ iter = 1 /\ sampled[f] # 0 /\ Entry(ledger0, f) = sampled[f])
            => /\ <<"upload_failed", "skip_unmodified", f>> \in notes
               /\ ~Attempted(f))

C13_Witness ==
    /\ starts > 1 /\ iter = 1 /\ pc \in BetweenFiles
    /\ uploaded_files # EmptyLedger
    /\ load_uploaded_files(pklfile) = uploaded_files
    /\ \E f \in SheetFiles : <<"upload_failed", "skip_unmodified", f>> \in notes

\* C14: no thread is left inside run when self.worker is replaced: a worker
\* is created only when there was none or the previous one has read running
\* as False at line 78 and returned.
C14_AtMostOneWorker ==
    /\ [](orphans = 0)
    /\ [](pc \notin {"none", "stopped"} => hasWorker)
    /\ [][starts' # starts
            => /\ pc \in {"none", "stopped"}
               /\ pc = "stopped"
                  => (~running /\ <<"upload_failed", "stopped", NoFile>> \in notes)]_vars

C14_Witness ==
    /\ starts > 1 /\ pc \in FilePcs /\ running
    /\ orphans = 0

Fetched(f) == <<f, "fetch">> \in ev \/ <<f, "fetch_failed">> \in ev

\* C15: in a pass the append call for f comes after the fetch and diff for
\* f, the ledger update for f after f's successful append, and from f's
\* fetch to f's ledger update every fetch, append and ledger update is for f.
C15_ReadThenWritePerFile ==
    /\ [](pc \in {"append", "ledger"} => Fetched(filename))
    /\ [](pc = "ledger" => <<filename, "append">> \in ev)
    /\ [](\A f \in SheetFiles :
            /\ (<<f, "append">> \in ev \/ <<f, "append_failed">> \in ev) => Fetched(f)
            /\ <<f, "ledger">> \in ev => <<f, "append">> \in ev)
    /\ [][\A f \in SheetFiles : \A op \in RemoteOps \cup {"ledger"} :
            (<<f, op>> \in ev' /\ <<f, op>> \notin ev)
            => (f = filename /\ filename' = filename)]_vars
    /\ [][(pc \in {"append", "ledger"} /\ pc' \in {"append", "ledger"})
            => filename' = filename]_vars

C15_Witness ==
    /\ \A f \in SheetFiles : Fetched(f) /\ <<f, "append">> \in ev /\ <<f, "ledger">> \in ev
    /\ pc = "for"

\* a batch of f that filtered to empty in this iteration leaves f's ledger
\* entry, in memory and in the ledger file, as it was
DuplicateSkipKeepsLedger ==
    \A f \in SheetFiles :
        <<f, "filtered_empty">> \in ev =>
            /\ Entry(uploaded_files, f) = Entry(ledger0, f)
            /\ <<f, "ledger">> \notin ev
            /\ ~(filename = f /\ pc = "ledger")

\* C16 (as stated): a duplicate skip leaves the ledger entry unchanged, and
\* at the end of the next pass that found connectivity the file has been
\* read and the remote fetched for it again.
C16_DuplicateSkipRetriedNextConnectedPass ==
    /\ DuplicateSkipKeepsLedger
    /\ \A f \in SheetFiles :
          ("filtered_empty" \in last[f].ops /\ Connected /\ pc \in {"wait_msg", "sleep"})
          => (<<f, "read">> \in ev /\ Fetched(f))

\* C16 (amended): a duplicate skip leaves the ledger entry unchanged, and in
\* the next pass in which the worker gets the file's modification time the
\* file is not skipped as unmodified: its read is attempted, and when the
\* read returns rows the remote is fetched again.
C16_DuplicateSkipRetriedWhenReached ==
    /\ DuplicateSkipKeepsLedger
    /\ \A f \in SheetFiles :
          ("filtered_empty" \in last[f].ops /\ sampled[f] # 0)
          => /\ <<"upload_failed", "skip_unmodified", f>> \notin notes
             /\ Attempted(f)
             /\ <<f, "read">> \in ev => (Fetched(f) \/ (pc = "fetch" /\ filename = f))

C16_Witness ==
    \E f \in SheetFiles :
        /\ "filtered_empty" \in last[f].ops
        /\ <<f, "read">> \in ev /\ <<f, "fetch">> \in ev
        /\ <<f, "filtered_empty">> \in ev
        /\ f \notin DOMAIN uploaded_files

\* C17: when f's modification time has moved on from the value sampled in a
\* pass, the entry that pass wrote for f differs from it, and in the next
\* pass in which the worker gets f's modification time f is not skipped as
\* unmodified: it is processed again.
C17_ModificationIsNotMissed ==
    \A f \in SheetFiles :
        /\ (<<f, "ledger">> \in ev /\ mtime[f] # sampled[f]) => uploaded_files[f] # mtime[f]
        /\ (last[f].sampled # 0 /\ sampled[f] # 0 /\ sampled[f] # last[f].sampled)
           => /\ <<"upload_failed", "skip_unmodified", f>> \notin notes
              /\ Attempted(f)

C17_Witness ==
    \E f \in SheetFiles :
        /\ last[f].sampled # 0 /\ sampled[f] # 0 /\ sampled[f] # last[f].sampled
        /\ Entry(ledger0, f) = last[f].sampled
        /\ <<f, "append">> \in ev /\ <<f, "ledger">> \in ev
        /\ uploaded_files[f] = sampled[f]

\* a failed save right after f's append leaves f's new entry in memory and
\* the ledger file as it was, without that entry
FailedSaveKeepsEntryInMemoryOnly ==
    [][(pc = "ledger" /\ <<filename, "save_failed">> \in ev')
        => /\ Entry(uploaded_files', filename) = file_modified_time
           /\ pklfile' = pklfile
           /\ Entry(load_uploaded_files(pklfile'), filename) # file_modified_time]_vars

\* f, whose save failed in the latest earlier pass that sampled it, is
\* sampled again by the same worker: the entry is still in memory, and f is
\* skipped when its modification time equals it
SkippedBySameWorker ==
    \A f \in SheetFiles :
        ("save_failed" \in last[f].ops /\ last[f].mine /\ sampled[f] # 0)
        => /\ f \in DOMAIN ledger0
           /\ sampled[f] = ledger0[f]
              => /\ <<"upload_failed", "skip_unmodified", f>> \in notes
                 /\ ~Attempted(f)

\* C18 (as stated): a failed save leaves the entry in memory only, the same
\* worker skips the file afterwards, and a worker started afterwards
\* processes the file again.
C18_FailedSaveAlwaysReuploadsAfterRestart ==
    /\ FailedSaveKeepsEntryInMemoryOnly
    /\ []SkippedBySameWorker
    /\ [](\A f \in SheetFiles :
            ("save_failed" \in last[f].ops /\ ~last[f].mine /\ sampled[f] # 0)
            => /\ <<"upload_failed", "skip_unmodified", f>> \notin notes
               /\ Attempted(f))

\* C18 (amended): a failed save leaves the entry in memory only, the same
\* worker skips the file afterwards, and a worker started afterwards
\* processes the file again unless the ledger file it loaded holds the entry
\* (a later save of the previous worker wrote the whole mapping), in which
\* case it skips the unmodified file.
C18_FailedSaveReuploadsUnlessSavedLater ==
    /\ FailedSaveKeepsEntryInMemoryOnly
    /\ []SkippedBySameWorker
    /\ [](\A f \in SheetFiles :
            ("save_failed" \in last[f].ops /\ ~last[f].mine /\ sampled[f] # 0)
            => IF Entry(ledger0, f) = sampled[f]
               THEN /\ <<"upload_failed", "skip_unmodified", f>> \in notes
                    /\ ~Attempted(f)
               ELSE /\ <<"upload_failed", "skip_unmodified", f>> \notin notes
                    /\ Attempted(f))

C18_Witness ==
    \E f \in SheetFiles :
        /\ "save_failed" \in last[f].ops /\ ~last[f].mine
        /\ mods = 0
        /\ f \notin DOMAIN ledger0
        /\ <<f, "append">> \in ev

====
